---- MODULE Spec2Model ----
(***************************************************************************)
(* Neuro-Aug: the image augmenter (code/imgaug.py) and the audio augmenter *)
(* (code/speechaug.py).  Buffers, effect kernels, the two composers        *)
(* (augment_image, augment_audio), the two batch drivers (main) and the    *)
(* two command-line entry points.                                          *)
(*                                                                         *)
(* Random draws and library failures are inputs: an action draws them with *)
(* \E.  Real-valued parameters are kept in fixed point (percent, tenths,   *)
(* per-mille).  A Python exception is a result record with raised = TRUE.  *)
(***************************************************************************)
EXTENDS Integers, Sequences, FiniteSets, TLC

VARIABLES
    prog,          \* "image" (imgaug.py) or "audio" (speechaug.py)
    pc,            \* position of the running program
    argv,          \* sys.argv
    listing,       \* os.listdir(input_folder): a sequence of directory entries
    outDirExists,  \* os.path.exists(output_folder)
    outDirCreated, \* os.makedirs(output_folder) was called by this run
    exitStatus,    \* status passed to sys.exit, -1 while none
    queue,         \* the files the for-loop of main still has to visit
    cur,           \* the file being processed: [f, img, i], active or not
    processed,     \* main's counter
    skipped,       \* main's counter
    outputs,       \* names of the files written to the output folder
    reads,         \* names of the input files opened
    stdout,        \* the lines printed, as a set of events
    handed,        \* the buffer last handed to augment
    faults,        \* the failures the libraries raised: [file, at, n]
    call           \* a composer or kernel called on its own: inputs, draws, result

vars == <<prog, pc, argv, listing, outDirExists, outDirCreated, exitStatus,
          queue, cur, processed, skipped, outputs, reads, stdout, handed, faults, call>>

Min(a, b) == IF a < b THEN a ELSE b
Max(a, b) == IF a > b THEN a ELSE b

(***************************************************************************)
(* Program constants.                                                      *)
(***************************************************************************)
NoiseMin == -20
NoiseMax == 20
ChannelMax == 255
BlurMinTenths == 5
BlurMaxTenths == 15
FactorMinPct == 80
FactorMaxPct == 120
ShiftXMin == 20
ShiftXMax == 30
ShiftYMin == -10
ShiftYMax == 10
ImageKMin == 1
ImageKMax == 4
AudioKMin == 1
AudioKMax == 3
NoiseLevelMin == -20
NoiseLevelMax == -10
RateMinPermille == 900
RateMaxPermille == 1100
SemitoneMin == -2
SemitoneMax == 2
VolumeMin == -3
VolumeMax == 3
DecayMinTenths == 1
DecayMaxTenths == 5
EchoAttenuation == 6

ImagePool == <<"blur", "brightness", "contrast", "noise", "rotate", "mirror", "shift">>
AudioPool == <<"add_noise", "time_stretch", "pitch_shift", "volume_adjust", "reverb_effect">>
NoiseTypes == <<"white", "pink", "brown">>
RotationAngles == <<90, 180, 270>>

(***************************************************************************)
(* Raster images.  A PIL image is [mode, side, px]: px is the row-major    *)
(* sequence of pixels of a side x side raster, a pixel is the sequence of  *)
(* its channel values (three for RGB, one for L).                          *)
(***************************************************************************)
Clamp(v) == Max(0, Min(v, ChannelMax))

Idx(x, y, side) == y * side + x + 1
XOf(p, side) == (p - 1) % side
YOf(p, side) == (p - 1) \div side

\* Image.convert('RGB')
convert_RGB(image) ==
    IF image.mode = "RGB" THEN image
    ELSE [image EXCEPT !.mode = "RGB",
                       !.px = [p \in 1..Len(image.px) |->
                                  <<image.px[p][1], image.px[p][1], image.px[p][1]>>]]

\* Image.convert('L'): PIL's ITU-R 601-2 luma, in integers
Luma(pixel) ==
    IF Len(pixel) = 1 THEN pixel[1]
    ELSE (pixel[1] * 19595 + pixel[2] * 38470 + pixel[3] * 7471 + 32768) \div 65536

RECURSIVE SumSeq(_)
SumSeq(s) == IF s = <<>> THEN 0 ELSE s[1] + SumSeq(Tail(s))

MeanLuma(image) ==
    (2 * SumSeq([p \in 1..Len(image.px) |-> Luma(image.px[p])]) + Len(image.px))
        \div (2 * Len(image.px))

ChannelMean(image, c) ==
    SumSeq([p \in 1..Len(image.px) |-> image.px[p][c]]) \div Len(image.px)

\* a pixel update that adds the draw to the red channel only
NoisePixelOneChannel(pixel, noise) ==
    <<Clamp(pixel[1] + noise), pixel[2], pixel[3]>>

\* one pixel of add_noise: ONE draw, added to the three channels
NoisePixel(pixel, noise) ==
    <<Clamp(pixel[1] + noise), Clamp(pixel[2] + noise), Clamp(pixel[3] + noise)>>

\* the pixel loop of add_noise on an RGB image; noises[p] is the draw for pixel p
NoiseLoop(image, noises) ==
    [image EXCEPT !.px = [p \in 1..Len(image.px) |-> NoisePixel(image.px[p], noises[p])]]

\* imgaug.add_noise.  The loop writes through image.load(): it changes the
\* object it is given when that object is RGB, and a converted copy otherwise.
\* The result says what the returned image holds, whether it is the object
\* passed in (same), and what the object passed in holds afterwards (arg).
imgaug_add_noise(image, noises) ==
    IF image.mode # "RGB"
    THEN [ret |-> NoiseLoop(convert_RGB(image), noises), same |-> FALSE, arg |-> image]
    ELSE [ret |-> NoiseLoop(image, noises), same |-> TRUE, arg |-> NoiseLoop(image, noises)]

\* image.transpose(Image.FLIP_LEFT_RIGHT)
mirror_image(image) ==
    LET Src(p) == Idx(image.side - 1 - XOf(p, image.side), YOf(p, image.side), image.side)
    IN  [image EXCEPT !.px = [p \in 1..Len(image.px) |-> image.px[Src(p)]]]

\* image.transform(size, AFFINE, (1, 0, shift_x, 0, 1, shift_y)): output (x, y)
\* reads input (x + shift_x, y + shift_y); outside the frame the fill is 0
shift_image(image, shift_x, shift_y) ==
    LET Inside(p) == /\ XOf(p, image.side) + shift_x \in 0..(image.side - 1)
                     /\ YOf(p, image.side) + shift_y \in 0..(image.side - 1)
        Src(p) == Idx(XOf(p, image.side) + shift_x, YOf(p, image.side) + shift_y, image.side)
    IN  [image EXCEPT !.px = [p \in 1..Len(image.px) |->
            IF Inside(p) THEN image.px[Src(p)]
            ELSE [c \in 1..Len(image.px[p]) |-> 0]]]

\* img.rotate(angle) for the angles drawn, on a square raster: PIL's transpose
\* path (counter-clockwise)
rotate(image, angle) ==
    LET s == image.side
        Src(p) == CASE angle = 90  -> Idx(s - 1 - YOf(p, s), XOf(p, s), s)
                    [] angle = 180 -> Idx(s - 1 - XOf(p, s), s - 1 - YOf(p, s), s)
                    [] angle = 270 -> Idx(YOf(p, s), s - 1 - XOf(p, s), s)
    IN  [image EXCEPT !.px = [p \in 1..Len(image.px) |-> image.px[Src(p)]]]

\* ImageEnhance.Brightness(img).enhance(factor): blend with black
brightness(image, pct) ==
    LET F(v) == Clamp((v * pct) \div 100)
    IN  [image EXCEPT !.px = [p \in 1..Len(image.px) |->
            [c \in 1..Len(image.px[p]) |-> F(image.px[p][c])]]]

\* ImageEnhance.Contrast(img).enhance(factor): blend with the mean grey
contrast(image, pct) ==
    LET m == MeanLuma(image)
        F(v) == Clamp(m + ((v - m) * pct) \div 100)
    IN  [image EXCEPT !.px = [p \in 1..Len(image.px) |->
            [c \in 1..Len(image.px[p]) |-> F(image.px[p][c])]]]

\* img.filter(GaussianBlur(radius)): library kernel; on the small rasters used
\* here every pixel is in every other's neighbourhood, so each channel moves
\* towards the raster's channel mean, the more the larger the radius
blur(image, tenths) ==
    [image EXCEPT !.px = [p \in 1..Len(image.px) |->
        [c \in 1..Len(image.px[p]) |->
            (image.px[p][c] * (2 * BlurMaxTenths - tenths) + ChannelMean(image, c) * tenths)
                \div (2 * BlurMaxTenths)]]]

\* One lambda of augment_image's list applied to the current image.  st is
\* [cur, arg, same]: the image the local variable holds, what the object the
\* caller passed holds, and whether the two are the same object.
ApplyImageKernel(st, kernel, draw) ==
    LET fresh(img) == [cur |-> img, arg |-> st.arg, same |-> FALSE]
    IN  CASE kernel = "blur"       -> fresh(blur(st.cur, draw[1]))
          [] kernel = "brightness" -> fresh(brightness(st.cur, draw[1]))
          [] kernel = "contrast"   -> fresh(contrast(st.cur, draw[1]))
          [] kernel = "rotate"     -> fresh(rotate(st.cur, draw[1]))
          [] kernel = "mirror"     -> fresh(mirror_image(st.cur))
          [] kernel = "shift"      -> fresh(shift_image(st.cur, draw[1], draw[2]))
          [] kernel = "noise"      ->
                LET r == imgaug_add_noise(st.cur, draw)
                IN  [cur  |-> r.ret,
                     same |-> st.same /\ r.same,
                     arg  |-> IF st.same /\ r.same THEN r.arg ELSE st.arg]

\* the for-loop of augment_image: it stops at the first kernel that raises
RECURSIVE ImageLoop(_, _, _, _, _)
ImageLoop(st, chain, draws, fails, i) ==
    IF i > Len(chain) THEN [st |-> st, raised |-> FALSE]
    ELSE IF i \in fails THEN [st |-> st, raised |-> TRUE]
    ELSE ImageLoop(ApplyImageKernel(st, chain[i], draws[i]), chain, draws, fails, i + 1)

\* the try/except of augment_image without its handler
ImageTryUnguarded(loop) ==
    [ret |-> loop.st.cur, arg |-> loop.st.arg, same |-> loop.st.same, raised |-> loop.raised]

\* the try/except of augment_image: both branches return the local variable
\* image, which the loop has rebound after every kernel that succeeded
ImageTry(loop) ==
    [ret |-> loop.st.cur, arg |-> loop.st.arg, same |-> loop.st.same, raised |-> FALSE]

augment_image(image, chain, draws, fails) ==
    ImageTry(ImageLoop([cur |-> image, arg |-> image, same |-> TRUE], chain, draws, fails, 1))

(***************************************************************************)
(* Audio clips.  A pydub AudioSegment is immutable: every operation returns *)
(* a new segment.  A clip is [frame_rate, frames, ops]: ops is the sequence *)
(* of sample-changing operations applied to the loaded samples, in order.   *)
(***************************************************************************)
Effect(audio, name, p) == [audio EXCEPT !.ops = Append(@, [op |-> name, p |-> p])]

\* len(audio): the duration in milliseconds
DurationMs(audio) == (2000 * audio.frames + audio.frame_rate) \div (2 * audio.frame_rate)

\* audio._spawn(raw_data, overrides={"frame_rate": new_rate}).set_frame_rate(frame_rate)
Reinterpret(audio, new_rate) ==
    IF new_rate = audio.frame_rate THEN audio
    ELSE Effect([audio EXCEPT !.frames = (audio.frames * audio.frame_rate) \div new_rate],
                "resample", <<new_rate>>)

\* 2 ** (semitones / 12), per-mille, for the semitones drawn
PitchRatioPermille(semitones) ==
    CASE semitones = -2 -> 890
      [] semitones = -1 -> 943
      [] semitones = 0  -> 1000
      [] semitones = 1  -> 1059
      [] semitones = 2  -> 1122

\* an except clause that lets the exception through
Unguarded(body, audio) == body

\* try: ... except Exception: print(...); return audio
Guard(body, audio) == IF body.raised THEN [val |-> audio, raised |-> FALSE] ELSE body

Raise(audio) == [val |-> audio, raised |-> TRUE]
Return(audio) == [val |-> audio, raised |-> FALSE]

speechaug_add_noise(audio, noise_type, noise_level, fail) ==
    Guard(IF fail THEN Raise(audio)
          ELSE IF DurationMs(audio) = 0 THEN Return(audio)
          ELSE Return(Effect(audio, "overlay_noise", <<noise_type, noise_level>>)),
          audio)

time_stretch(audio, rate, fail) ==
    Guard(IF fail THEN Raise(audio)
          ELSE Return(Reinterpret(audio, (audio.frame_rate * rate) \div 1000)),
          audio)

pitch_shift(audio, semitones, fail) ==
    Guard(IF fail THEN Raise(audio)
          ELSE Return(Reinterpret(audio,
                   (audio.frame_rate * PitchRatioPermille(semitones)) \div 1000)),
          audio)

volume_adjust(audio, db_change, fail) ==
    Guard(IF fail THEN Raise(audio) ELSE Return(Effect(audio, "gain", <<db_change>>)),
          audio)

reverb_effect(audio, decay, fail) ==
    Guard(IF fail THEN Raise(audio)
          ELSE Return(Effect(audio, "overlay_echo", <<-EchoAttenuation, decay * 100>>)),
          audio)

\* one lambda of augment_audio's list
ApplyAudioKernel(audio, kernel, draw, fail) ==
    CASE kernel = "add_noise"     -> speechaug_add_noise(audio, draw[1], draw[2], fail)
      [] kernel = "time_stretch"  -> time_stretch(audio, draw[1], fail)
      [] kernel = "pitch_shift"   -> pitch_shift(audio, draw[1], fail)
      [] kernel = "volume_adjust" -> volume_adjust(audio, draw[1], fail)
      [] kernel = "reverb_effect" -> reverb_effect(audio, draw[1], fail)

\* the for-loop of augment_audio: no try around it, an exception leaves it
RECURSIVE AudioLoop(_, _, _, _, _)
AudioLoop(result, chain, draws, fails, i) ==
    IF i > Len(chain) THEN Return(result)
    ELSE LET r == ApplyAudioKernel(result, chain[i], draws[i], i \in fails)
         IN  IF r.raised THEN r
             ELSE AudioLoop(r.val, chain, draws, fails, i + 1)

augment_audio(audio, chain, draws, fails) ==
    LET r == AudioLoop(audio, chain, draws, fails, 1)
    IN  [ret |-> r.val, arg |-> audio, same |-> r.val = audio, raised |-> r.raised]

(***************************************************************************)
(* The draws of one augment call.                                          *)
(***************************************************************************)
\* random.randint(1, 4) in augment_image
ImageDrawK == ImageKMin..ImageKMax

\* a draw of the audio chain length as wide as the image one
AudioDrawKWide == AudioKMin..(AudioKMax + 1)

\* random.randint(1, 3) in augment_audio
AudioDrawK == AudioKMin..AudioKMax

SeqToSet(s) == {s[i] : i \in 1..Len(s)}

\* random.sample(population, n): the n-element sequences without repetition
RECURSIVE SampleOf(_, _)
SampleOf(S, n) ==
    IF n = 0 THEN {<<>>}
    ELSE UNION {{<<x>> \o rest : rest \in SampleOf(S \ {x}, n - 1)} : x \in S}

random_sample(pool, n) == SampleOf(SeqToSet(pool), n)

\* min(num_augmentations, len(augmentations))
SampleSize(k, pool) == Min(k, Len(pool))

\* the parameter draws of one image kernel, as a sequence of integers; the
\* real-valued ranges are drawn at their two ends, the noise field from Fields
ImageDraws(kernel, Fields) ==
    CASE kernel = "blur"       -> {<<BlurMinTenths>>, <<BlurMaxTenths>>}
      [] kernel = "brightness" -> {<<FactorMinPct>>, <<FactorMaxPct>>}
      [] kernel = "contrast"   -> {<<FactorMinPct>>, <<FactorMaxPct>>}
      [] kernel = "noise"      -> Fields
      [] kernel = "rotate"     -> {<<RotationAngles[a]>> : a \in 1..Len(RotationAngles)}
      [] kernel = "mirror"     -> {<<>>}
      [] kernel = "shift"      -> {<<ShiftXMin, ShiftYMin>>, <<ShiftXMax, ShiftYMax>>}

RECURSIVE ImageDrawSeqs(_, _)
ImageDrawSeqs(chain, Fields) ==
    IF chain = <<>> THEN {<<>>}
    ELSE {<<d>> \o rest : d \in ImageDraws(chain[1], Fields),
                          rest \in ImageDrawSeqs(Tail(chain), Fields)}

AudioDraws(kernel) ==
    CASE kernel = "add_noise"     ->
            {<<t, l>> : t \in 1..Len(NoiseTypes), l \in {NoiseLevelMin, NoiseLevelMax}}
      [] kernel = "time_stretch"  -> {<<RateMinPermille>>, <<RateMaxPermille>>}
      [] kernel = "pitch_shift"   -> {<<SemitoneMin>>, <<SemitoneMax>>}
      [] kernel = "volume_adjust" -> {<<VolumeMin>>, <<VolumeMax>>}
      [] kernel = "reverb_effect" -> {<<DecayMinTenths>>, <<DecayMaxTenths>>}

RECURSIVE AudioDrawSeqs(_)
AudioDrawSeqs(chain) ==
    IF chain = <<>> THEN {<<>>}
    ELSE {<<d>> \o rest : d \in AudioDraws(chain[1]), rest \in AudioDrawSeqs(Tail(chain))}

\* random.randint(-20, 20) for every pixel: all fields, and a sample of them
AllNoiseFields(n) == [1..n -> NoiseMin..NoiseMax]
SomeNoiseFields(n) ==
    { [p \in 1..n |-> NoiseMin], [p \in 1..n |-> NoiseMax],
      [p \in 1..n |-> IF p % 2 = 1 THEN NoiseMin ELSE NoiseMax] }

\* which kernels of a chain raise: the image loop ends at the first one
FirstFailures(k) == {{}} \cup {{i} : i \in 1..k}
AnyFailures(k) == SUBSET (1..k)

(***************************************************************************)
(* Bounds and the buffers the checks start from.                           *)
(***************************************************************************)
MaxSide == 2
MaxFiles == 2
MaxCopies == 2

TestImage(mode, side) ==
    [mode |-> mode, side |-> side,
     px |-> [p \in 1..(side * side) |->
                IF mode = "RGB"
                THEN <<(p * 83) % 256, (p * 151 + 250) % 256, (p * 47 + 5) % 256>>
                ELSE <<(p * 83) % 256>>]]

TestImages == {TestImage(m, MaxSide) : m \in {"RGB", "L"}}

ChannelSamples == {0, 10, 128, 250, ChannelMax}
OnePixelImages ==
    {[mode |-> "RGB", side |-> 1, px |-> <<<<r, g, b>>>>] :
        r \in ChannelSamples, g \in ChannelSamples, b \in ChannelSamples}

TestClips ==
    {[frame_rate |-> 8000, frames |-> n * 4000, ops |-> <<>>] : n \in 0..MaxCopies}

NoCall ==
    [kind |-> "none", in |-> <<>>, k |-> 0, chain |-> <<>>, draws |-> <<>>,
     fails |-> {}, ret |-> <<>>, arg |-> <<>>, raised |-> FALSE]

Pending(buffer) == [NoCall EXCEPT !.kind = "pending", !.in = buffer]

Idle ==
    /\ argv = <<>> /\ listing = <<>> /\ outDirExists = FALSE /\ outDirCreated = FALSE
    /\ exitStatus = -1 /\ queue = <<>> /\ cur = <<>> /\ processed = 0 /\ skipped = 0
    /\ outputs = {} /\ reads = {} /\ stdout = {} /\ handed = <<>> /\ faults = {}

driverVars == <<argv, listing, outDirExists, outDirCreated, exitStatus, queue, cur,
                processed, skipped, outputs, reads, stdout, handed, faults>>

(***************************************************************************)
(* One call of a composer on a buffer.                                     *)
(***************************************************************************)
\* num_augmentations = random.randint(1, 4)
DrawImageK(k) ==
    /\ prog = "image" /\ pc = "call"
    /\ k \in ImageDrawK
    /\ call' = [call EXCEPT !.k = k]
    /\ pc' = "drawn"
    /\ UNCHANGED <<prog, driverVars>>

\* the rest of augment_image: the sample, the loop, the return
ApplyImageChain ==
    /\ prog = "image" /\ pc = "drawn"
    /\ \E chain \in random_sample(ImagePool, SampleSize(call.k, ImagePool)) :
       \E draws \in ImageDrawSeqs(chain, SomeNoiseFields(Len(call.in.px))) :
       \E fails \in FirstFailures(Len(chain)) :
          LET r == augment_image(call.in, chain, draws, fails)
          IN  /\ call' = [kind |-> "image", in |-> call.in, k |-> call.k, chain |-> chain,
                          draws |-> draws, fails |-> fails, ret |-> r.ret,
                          arg |-> r.arg, raised |-> r.raised]
              /\ pc' = IF r.raised THEN "raised" ELSE "returned"
    /\ UNCHANGED <<prog, driverVars>>

\* num_effects = random.randint(1, 3)
DrawAudioK(k) ==
    /\ prog = "audio" /\ pc = "call"
    /\ k \in AudioDrawK
    /\ call' = [call EXCEPT !.k = k]
    /\ pc' = "drawn"
    /\ UNCHANGED <<prog, driverVars>>

\* the rest of augment_audio: the sample, the loop, the return
ApplyAudioChain ==
    /\ prog = "audio" /\ pc = "drawn"
    /\ \E chain \in random_sample(AudioPool, SampleSize(call.k, AudioPool)) :
       \E draws \in AudioDrawSeqs(chain) :
       \E fails \in AnyFailures(Len(chain)) :
          LET r == augment_audio(call.in, chain, draws, fails)
          IN  /\ call' = [kind |-> "audio", in |-> call.in, k |-> call.k, chain |-> chain,
                          draws |-> draws, fails |-> fails, ret |-> r.ret,
                          arg |-> r.arg, raised |-> r.raised]
              /\ pc' = IF r.raised THEN "raised" ELSE "returned"
    /\ UNCHANGED <<prog, driverVars>>

ComposeInit ==
    /\ Idle
    /\ pc = "call"
    /\ \/ prog = "image" /\ call \in {Pending(b) : b \in TestImages}
       \/ prog = "audio" /\ call \in {Pending(b) : b \in TestClips}

ComposeNext ==
    \/ \E k \in 0..Len(ImagePool) : DrawImageK(k)
    \/ ApplyImageChain
    \/ \E k \in 0..Len(AudioPool) : DrawAudioK(k)
    \/ ApplyAudioChain

SpecCompose == ComposeInit /\ [][ComposeNext]_vars

(***************************************************************************)
(* One call of the image NoiseInjection kernel on a buffer.                *)
(***************************************************************************)
NoiseDrawSet(image) ==
    IF Len(image.px) = 1 THEN AllNoiseFields(1) ELSE SomeNoiseFields(Len(image.px))

NoiseCall ==
    /\ prog = "noise" /\ pc = "call"
    /\ \E noises \in NoiseDrawSet(call.in) :
          LET r == imgaug_add_noise(call.in, noises)
          IN  call' = [kind |-> "noise", in |-> call.in, k |-> 1, chain |-> <<"noise">>,
                       draws |-> <<noises>>, fails |-> {}, ret |-> r.ret,
                       arg |-> r.arg, raised |-> FALSE]
    /\ pc' = "returned"
    /\ UNCHANGED <<prog, driverVars>>

NoiseInit ==
    /\ Idle
    /\ pc = "call"
    /\ prog = "noise"
    /\ call \in {Pending(b) : b \in OnePixelImages \cup TestImages}

NoiseNext == NoiseCall

SpecNoise == NoiseInit /\ [][NoiseNext]_vars

(***************************************************************************)
(* The command line and the batch drivers.                                 *)
(***************************************************************************)
Digits == <<"0", "1", "2", "3", "4", "5", "6", "7", "8", "9">>
IsDigit(c) == \E d \in 1..Len(Digits) : Digits[d] = c
DigitVal(c) == (CHOOSE d \in 1..Len(Digits) : Digits[d] = c) - 1

\* str(n), as the sequence of its characters
RECURSIVE Str(_)
Str(n) ==
    IF n < 0 THEN <<"-">> \o Str(-n)
    ELSE IF n < 10 THEN <<Digits[n + 1]>>
    ELSE Str(n \div 10) \o <<Digits[(n % 10) + 1]>>

RECURSIVE Strip(_)
Strip(s) ==
    IF s # <<>> /\ s[1] = " " THEN Strip(Tail(s))
    ELSE IF s # <<>> /\ s[Len(s)] = " " THEN Strip(SubSeq(s, 1, Len(s) - 1))
    ELSE s

RECURSIVE DigitsValue(_, _)
DigitsValue(s, acc) ==
    IF s = <<>> THEN acc ELSE DigitsValue(Tail(s), acc * 10 + DigitVal(s[1]))

\* int(s): surrounding blanks, an optional sign, then decimal digits; anything
\* else is a ValueError (ok = FALSE)
ParseInt(s) ==
    LET t == Strip(s)
        signed == t # <<>> /\ t[1] \in {"+", "-"}
        body == IF signed THEN Tail(t) ELSE t
        good == body # <<>> /\ \A i \in 1..Len(body) : IsDigit(body[i])
    IN  IF ~good THEN [ok |-> FALSE, val |-> 0]
        ELSE [ok |-> TRUE,
              val |-> IF signed /\ t[1] = "-" THEN -DigitsValue(body, 0)
                      ELSE DigitsValue(body, 0)]

\* a check of the count that lets zero through
CountOkFromZero(n) == n.ok /\ ~(n.val < 0)

\* int(sys.argv[3]) parsed and num_copies <= 0 did not raise
CountOk(n) == n.ok /\ ~(n.val <= 0)

\* str.lower(), for the extensions of the entries used
Lower(ext) ==
    CASE ext = ".JPG" -> ".jpg"
      [] ext = ".MP3" -> ".mp3"
      [] OTHER -> ext

ImageExtensions == {".jpg", ".jpeg", ".png", ".bmp"}
AudioExtensions == {".mp3", ".wav", ".flac", ".ogg"}
ValidExtensions(p) == IF p = "image" THEN ImageExtensions ELSE AudioExtensions

\* a filter that compares the extension as spelled
EndsWithNoLower(ext, valid_extensions) == ext \in valid_extensions

\* filename.lower().endswith(valid_extensions)
EndsWith(ext, valid_extensions) == Lower(ext) \in valid_extensions

\* the directory entries a listing is made of: base name, extension, and
\* what decoding the file gives (ok = FALSE: the decoder raises)
Entries(p) ==
    IF p = "image"
    THEN { [base |-> "a", ext |-> ".png", ok |-> TRUE, data |-> TestImage("RGB", MaxSide)],
           [base |-> "b", ext |-> ".JPG", ok |-> TRUE, data |-> TestImage("L", MaxSide)],
           [base |-> "c", ext |-> ".bmp", ok |-> FALSE, data |-> TestImage("L", 1)],
           [base |-> "notes", ext |-> ".txt", ok |-> FALSE, data |-> TestImage("L", 1)] }
    ELSE { [base |-> "a", ext |-> ".wav", ok |-> TRUE,
            data |-> [frame_rate |-> 8000, frames |-> 4000, ops |-> <<>>]],
           [base |-> "b", ext |-> ".MP3", ok |-> TRUE,
            data |-> [frame_rate |-> 8000, frames |-> 0, ops |-> <<>>]],
           [base |-> "c", ext |-> ".ogg", ok |-> FALSE,
            data |-> [frame_rate |-> 8000, frames |-> 0, ops |-> <<>>]],
           [base |-> "notes", ext |-> ".txt", ok |-> FALSE,
            data |-> [frame_rate |-> 8000, frames |-> 0, ops |-> <<>>]] }

Listings(p) == UNION {SampleOf(Entries(p), n) : n \in 0..MaxFiles}

ExistingFolders == {"in"}

CountArgs ==
    {Str(n) : n \in -1..MaxCopies}
        \cup {<<"+", "0">>, <<"a", "b", "c">>, <<>>, <<"1", ".", "5">>, <<" ", "-", "1">>}

Argvs ==
    {<<"prog", "in", "out">>}
        \cup {<<"prog", d, "out", c>> : d \in {"in", "missing"}, c \in CountArgs}

Event(ev, file, n) == [ev |-> ev, file |-> file, n |-> n]
Fault(file, at, n) == [file |-> file, at |-> at, n |-> n]
OutName(base, kind, n, ext) == [base |-> base, kind |-> kind, n |-> n, ext |-> ext]

NoFile == [f |-> <<>>, img |-> <<>>, i |-> 0, active |-> FALSE]

\* the count main runs with
Count == ParseInt(argv[4]).val

\* the checks of the __main__ block, in order
ArgsAccepted ==
    /\ Len(argv) = 4
    /\ CountOk(ParseInt(argv[4]))
    /\ argv[2] \in ExistingFolders

\* __main__: sys.exit(1) on a wrong number of arguments, a bad count or a
\* missing input folder
Reject ==
    /\ prog \in {"image", "audio"} /\ pc = "start"
    /\ ~ArgsAccepted
    /\ pc' = "exit"
    /\ exitStatus' = 1
    /\ stdout' = stdout \cup {Event("usage_or_error", "", 0)}
    /\ UNCHANGED <<prog, argv, listing, outDirExists, outDirCreated, queue, cur,
                   processed, skipped, outputs, reads, handed, faults, call>>

\* the files the for-loop of main visits: every entry of the folder in
\* imgaug.py, the entries with an audio extension in speechaug.py
LoopFiles(p, entries) ==
    IF p = "image" THEN entries
    ELSE SelectSeq(entries, LAMBDA e : EndsWith(e.ext, ValidExtensions(p)))

\* __main__ calls main: the output folder is made when absent, the counters
\* start at 0
EnterMain ==
    /\ prog \in {"image", "audio"} /\ pc = "start"
    /\ ArgsAccepted
    /\ outDirCreated' = ~outDirExists
    /\ outDirExists' = TRUE
    /\ processed' = 0 /\ skipped' = 0
    /\ queue' = LoopFiles(prog, listing)
    /\ stdout' = IF prog = "audio"
                 THEN stdout \cup {Event("found", "", Len(LoopFiles(prog, listing)))}
                 ELSE stdout
    /\ pc' = "loop"
    /\ UNCHANGED <<prog, argv, listing, exitStatus, cur, outputs, reads, handed,
                   faults, call>>

\* the except branch of the per-file try counting the file as processed
FileErrorAsProcessed(counters) == [counters EXCEPT !.processed = @ + 1]

\* except Exception as e: print("Error processing ..."); skipped += 1
FileError(counters) == [counters EXCEPT !.skipped = @ + 1]

Counters == [processed |-> processed, skipped |-> skipped]

\* leave the current file through the except branch of the per-file try
AbandonFile(f) ==
    /\ processed' = FileError(Counters).processed
    /\ skipped' = FileError(Counters).skipped
    /\ stdout' = stdout \cup {Event("error_processing", f.base, 0)}
    /\ queue' = Tail(queue)
    /\ cur' = NoFile
    /\ pc' = "loop"

\* imgaug.main, the else branch: not a supported image format
SkipUnsupported ==
    /\ prog = "image" /\ pc = "loop" /\ queue # <<>>
    /\ ~EndsWith(queue[1].ext, ValidExtensions(prog))
    /\ skipped' = skipped + 1
    /\ stdout' = stdout \cup {Event("skipping", queue[1].base, 0)}
    /\ queue' = Tail(queue)
    /\ UNCHANGED <<prog, pc, argv, listing, outDirExists, outDirCreated, exitStatus,
                   cur, processed, outputs, reads, handed, faults, call>>

\* imgaug.main: Image.open(input_path)
OpenImage ==
    /\ prog = "image" /\ pc = "loop" /\ queue # <<>>
    /\ EndsWith(queue[1].ext, ValidExtensions(prog))
    /\ reads' = reads \cup {queue[1].base}
    /\ \/ /\ queue[1].ok
          /\ cur' = [f |-> queue[1], img |-> queue[1].data, i |-> 0, active |-> TRUE]
          /\ pc' = "copies"
          /\ UNCHANGED <<queue, processed, skipped, stdout, faults>>
       \/ /\ ~queue[1].ok
          /\ faults' = faults \cup {Fault(queue[1].base, "load", 0)}
          /\ AbandonFile(queue[1])
    /\ UNCHANGED <<prog, argv, listing, outDirExists, outDirCreated, exitStatus,
                   outputs, handed, call>>

\* the draws of the driver's augment calls: the chains of k consecutive
\* kernels of the pool (cyclically), with every parameter at the low end of
\* its range or every one at the high end, and no kernel failing or the last
\* one
Window(pool, start, k) == [i \in 1..k |-> pool[((start + i - 2) % Len(pool)) + 1]]
SomeSamples(pool, k) == {Window(pool, st, k) : st \in 1..Len(pool)}
SomeFailures(k) == {{}, {k}}

ImageDrawEnds(chain, n) ==
    LET Lo(kernel) ==
            CASE kernel = "blur" -> <<BlurMinTenths>>
              [] kernel \in {"brightness", "contrast"} -> <<FactorMinPct>>
              [] kernel = "noise" -> [p \in 1..n |-> NoiseMin]
              [] kernel = "rotate" -> <<RotationAngles[1]>>
              [] kernel = "mirror" -> <<>>
              [] kernel = "shift" -> <<ShiftXMin, ShiftYMin>>
        Hi(kernel) ==
            CASE kernel = "blur" -> <<BlurMaxTenths>>
              [] kernel \in {"brightness", "contrast"} -> <<FactorMaxPct>>
              [] kernel = "noise" -> [p \in 1..n |-> NoiseMax]
              [] kernel = "rotate" -> <<RotationAngles[Len(RotationAngles)]>>
              [] kernel = "mirror" -> <<>>
              [] kernel = "shift" -> <<ShiftXMax, ShiftYMax>>
    IN  {[i \in 1..Len(chain) |-> Lo(chain[i])], [i \in 1..Len(chain) |-> Hi(chain[i])]}

AudioDrawEnds(chain) ==
    LET Lo(kernel) ==
            CASE kernel = "add_noise" -> <<1, NoiseLevelMin>>
              [] kernel = "time_stretch" -> <<RateMinPermille>>
              [] kernel = "pitch_shift" -> <<SemitoneMin>>
              [] kernel = "volume_adjust" -> <<VolumeMin>>
              [] kernel = "reverb_effect" -> <<DecayMinTenths>>
        Hi(kernel) ==
            CASE kernel = "add_noise" -> <<Len(NoiseTypes), NoiseLevelMax>>
              [] kernel = "time_stretch" -> <<RateMaxPermille>>
              [] kernel = "pitch_shift" -> <<SemitoneMax>>
              [] kernel = "volume_adjust" -> <<VolumeMax>>
              [] kernel = "reverb_effect" -> <<DecayMaxTenths>>
    IN  {[i \in 1..Len(chain) |-> Lo(chain[i])], [i \in 1..Len(chain) |-> Hi(chain[i])]}

\* passing the loaded image itself
ImgNoCopy(img) == [val |-> img, same |-> TRUE]

\* img.copy(): a new object with the contents of img
ImgCopy(img) == [val |-> img, same |-> FALSE]

\* imgaug.main, one round of the copy loop: augment_image(img.copy()), then
\* augmented_img.save(output_path, 'JPEG'); an exception leaves the file
MakeImageCopy ==
    /\ prog = "image" /\ pc = "copies" /\ cur.i < Count
    /\ \E k \in ImageDrawK :
       \E chain \in SomeSamples(ImagePool, SampleSize(k, ImagePool)) :
       \E draws \in ImageDrawEnds(chain, Len(cur.img.px)) :
       \E fails \in SomeFailures(Len(chain)) :
       \E saveFails \in BOOLEAN :
          LET c == ImgCopy(cur.img)
              r == augment_image(c.val, chain, draws, fails)
          IN  /\ handed' = c.val
              /\ IF r.raised
                 THEN AbandonFile(cur.f) /\ UNCHANGED <<outputs, faults>>
                 ELSE IF saveFails
                 THEN /\ faults' = faults \cup {Fault(cur.f.base, "save_copy", cur.i + 1)}
                      /\ AbandonFile(cur.f)
                      /\ UNCHANGED outputs
                 ELSE /\ outputs' = outputs \cup {OutName(cur.f.base, "aug", cur.i + 1, ".jpg")}
                      /\ cur' = [cur EXCEPT !.i = @ + 1,
                                            !.img = IF c.same THEN r.arg ELSE @]
                      /\ UNCHANGED <<pc, queue, processed, skipped, stdout, faults>>
    /\ UNCHANGED <<prog, argv, listing, outDirExists, outDirCreated, exitStatus, reads,
                   call>>

\* processed += 1; print("Processed: ...")
MarkProcessed ==
    /\ pc = "copies" /\ cur.i = Count
    /\ processed' = processed + 1
    /\ stdout' = stdout \cup {Event("processed", cur.f.base, processed + 1)}
    /\ queue' = Tail(queue)
    /\ cur' = NoFile
    /\ pc' = "loop"
    /\ UNCHANGED <<prog, argv, listing, outDirExists, outDirCreated, exitStatus,
                   skipped, outputs, reads, handed, faults, call>>

FinishImage == prog = "image" /\ MarkProcessed

\* imgaug.main after the loop: the summary line
SummaryImage ==
    /\ prog = "image" /\ pc = "loop" /\ queue = <<>>
    /\ stdout' = stdout \cup {Event("summary_processed", "", processed),
                              Event("summary_skipped", "", skipped)}
    /\ pc' = "done"
    /\ UNCHANGED <<prog, argv, listing, outDirExists, outDirCreated, exitStatus,
                   queue, cur, processed, skipped, outputs, reads, handed, faults, call>>

\* the if/elif chain that picks the loader; a lowered extension that matches
\* none of the four leaves the local variable audio unbound
Loader(file_ext) ==
    CASE file_ext = ".mp3"  -> "from_mp3"
      [] file_ext = ".wav"  -> "from_wav"
      [] file_ext = ".flac" -> "from_file"
      [] file_ext = ".ogg"  -> "from_ogg"
      [] OTHER -> "unbound"

\* speechaug.main, the head of the per-file try: the loader is chosen by the
\* lowered extension, then the unmodified copy is exported.  (Every entry of
\* Entries that passes the filter of LoopFiles has a loader.)
LoadAudio ==
    /\ prog = "audio" /\ pc = "loop" /\ queue # <<>>
    /\ LET f == queue[1]
           file_ext == Lower(f.ext)
       IN  \/ /\ Loader(file_ext) = "unbound"
              /\ AbandonFile(f)
              /\ UNCHANGED <<reads, outputs, faults>>
           \/ /\ Loader(file_ext) # "unbound" /\ ~f.ok
              /\ reads' = reads \cup {f.base}
              /\ faults' = faults \cup {Fault(f.base, "load", 0)}
              /\ AbandonFile(f)
              /\ UNCHANGED outputs
           \/ /\ Loader(file_ext) # "unbound" /\ f.ok
              /\ reads' = reads \cup {f.base}
              /\ \/ /\ faults' = faults \cup {Fault(f.base, "save_original", 0)}
                    /\ AbandonFile(f)
                    /\ UNCHANGED outputs
                 \/ /\ outputs' = outputs \cup {OutName(f.base, "original", 0, file_ext)}
                    /\ cur' = [f |-> f, img |-> f.data, i |-> 0, active |-> TRUE]
                    /\ pc' = "copies"
                    /\ UNCHANGED <<queue, processed, skipped, stdout, faults>>
    /\ UNCHANGED <<prog, argv, listing, outDirExists, outDirCreated, exitStatus,
                   handed, call>>

\* speechaug.main, one round of the copy loop, with its own try: augment_audio
\* on the loaded segment, then export; an exception is printed and the loop
\* goes on
MakeAudioCopy ==
    /\ prog = "audio" /\ pc = "copies" /\ cur.i < Count
    /\ \E k \in AudioDrawK :
       \E chain \in SomeSamples(AudioPool, SampleSize(k, AudioPool)) :
       \E draws \in AudioDrawEnds(chain) :
       \E fails \in SomeFailures(Len(chain)) :
       \E saveFails \in BOOLEAN :
          LET r == augment_audio(cur.img, chain, draws, fails)
          IN  /\ handed' = cur.img
              /\ cur' = [cur EXCEPT !.i = @ + 1, !.img = r.arg]
              /\ IF r.raised
                 THEN /\ stdout' = stdout \cup {Event("error_creating", cur.f.base, cur.i + 1)}
                      /\ UNCHANGED <<outputs, faults>>
                 ELSE IF saveFails
                 THEN /\ faults' = faults \cup {Fault(cur.f.base, "save_copy", cur.i + 1)}
                      /\ stdout' = stdout \cup {Event("error_creating", cur.f.base, cur.i + 1)}
                      /\ UNCHANGED outputs
                 ELSE /\ outputs' = outputs \cup
                              {OutName(cur.f.base, "aug", cur.i + 1, Lower(cur.f.ext))}
                      /\ UNCHANGED <<stdout, faults>>
    /\ UNCHANGED <<prog, pc, argv, listing, outDirExists, outDirCreated, exitStatus,
                   queue, processed, skipped, reads, call>>

FinishAudio == prog = "audio" /\ MarkProcessed

\* print(f"Total augmentations created: {processed * num_augmentations}")
TotalAugmentations(n_processed, num_augmentations) == n_processed * num_augmentations

\* speechaug.main after the loop: the two summary lines
SummaryAudio ==
    /\ prog = "audio" /\ pc = "loop" /\ queue = <<>>
    /\ stdout' = stdout \cup {Event("summary_processed", "", processed),
                              Event("summary_skipped", "", skipped),
                              Event("total", "", TotalAugmentations(processed, Count))}
    /\ pc' = "done"
    /\ UNCHANGED <<prog, argv, listing, outDirExists, outDirCreated, exitStatus,
                   queue, cur, processed, skipped, outputs, reads, handed, faults, call>>

Init ==
    /\ prog \in {"image", "audio"}
    /\ pc = "start"
    /\ argv \in Argvs
    /\ listing \in (IF argv[2] \in ExistingFolders THEN Listings(prog) ELSE {<<>>})
    /\ outDirExists \in BOOLEAN
    /\ outDirCreated = FALSE
    /\ exitStatus = -1
    /\ queue = <<>> /\ cur = NoFile
    /\ processed = 0 /\ skipped = 0
    /\ outputs = {} /\ reads = {} /\ stdout = {} /\ faults = {}
    /\ handed = <<>>
    /\ call = NoCall

Next ==
    \/ Reject
    \/ EnterMain
    \/ SkipUnsupported
    \/ OpenImage
    \/ MakeImageCopy
    \/ FinishImage
    \/ SummaryImage
    \/ LoadAudio
    \/ MakeAudioCopy
    \/ FinishAudio
    \/ SummaryAudio

Spec == Init /\ [][Next]_vars

(***************************************************************************)
(* Claims about the composers (SpecCompose).                               *)
(***************************************************************************)
Called(kind) == call.kind = kind /\ pc \in {"returned", "raised"}

\* C1: when a kernel of the selected chain raises, augment_image returns the
\* buffer exactly as it was passed in: no effect of the kernels that already
\* succeeded is in the returned buffer.
C1_AbortReturnsOriginal ==
    (Called("image") /\ call.fails # {}) => call.ret = call.in

\* the kernels of a chain that did not fail, applied in chain order, each
\* to the result of the one before
RECURSIVE EffectsOfSurvivors(_, _, _, _, _)
EffectsOfSurvivors(audio, chain, draws, fails, i) ==
    IF i > Len(chain) THEN audio
    ELSE EffectsOfSurvivors(
            IF i \in fails THEN audio
            ELSE ApplyAudioKernel(audio, chain[i], draws[i], FALSE).val,
            chain, draws, fails, i + 1)

\* C2: in augment_audio a failing kernel hands the buffer it received to the
\* next kernel unchanged and every later kernel still runs: the result is the
\* composition of exactly the non-failing kernels, in chain order.
C2_SkipAndContinue ==
    Called("audio") =>
        /\ pc = "returned"
        /\ call.ret = EffectsOfSurvivors(call.in, call.chain, call.draws, call.fails, 1)
        /\ Len(call.ret.ops) <= Len(call.chain) - Cardinality(call.fails)

\* a chain of three whose first kernel failed and whose two later kernels
\* both left their effect
C2_Witness ==
    /\ Called("audio") /\ call.k = 3 /\ call.fails = {1}
    /\ Len(call.ret.ops) = 2
    /\ call.in.frames > 0

\* C3: whatever kernels are selected and whichever fail, no error leaves
\* augment_image or augment_audio: the call ends by returning a buffer.
C3_NoErrorEscapes ==
    /\ pc # "raised"
    /\ Called("image") =>
          /\ ~call.raised
          /\ call.ret.side = call.in.side /\ Len(call.ret.px) = Len(call.in.px)
          /\ \A p \in 1..Len(call.ret.px) : \A c \in 1..Len(call.ret.px[p]) :
                call.ret.px[p][c] \in 0..255
    /\ Called("audio") =>
          /\ ~call.raised
          /\ call.ret.frame_rate = call.in.frame_rate /\ call.ret.frames >= 0

\* an image call whose first kernel raised, and an audio call all of whose
\* kernels raised
C3_Witness ==
    \/ Called("image") /\ 1 \in call.fails /\ pc = "returned"
    \/ Called("audio") /\ call.fails = 1..call.k /\ pc = "returned"

\* the chain lengths v for which a call can draw v
DrawableK == {v \in 0..Max(Len(ImagePool), Len(AudioPool)) :
                 ENABLED (DrawImageK(v) \/ DrawAudioK(v))}

PoolOf(p) == IF p = "image" THEN ImagePool ELSE AudioPool

\* C4 as stated: for both pools the chain length ranges over exactly
\* 1 .. min(4, |pool|).
C4_RangeMin4 ==
    /\ pc = "call" => DrawableK = 1..Min(4, Len(PoolOf(prog)))
    /\ (Called("image") \/ Called("audio")) =>
          call.k \in 1..Min(4, Len(PoolOf(prog))) /\ Len(call.chain) = call.k

\* C4, amended: the image pool (7 kernels) draws its chain length over exactly
\* 1..4, the audio pool (5 kernels) over exactly 1..3; the chain has that many
\* distinct kernels of the pool.
C4_RangePerMedium ==
    /\ Len(ImagePool) = 7 /\ Len(AudioPool) = 5
    /\ pc = "call" => DrawableK = (IF prog = "image" THEN 1..4 ELSE 1..3)
    /\ (Called("image") \/ Called("audio")) =>
          /\ call.k \in (IF prog = "image" THEN 1..4 ELSE 1..3)
          /\ Len(call.chain) = call.k
          /\ Cardinality(SeqToSet(call.chain)) = call.k
          /\ SeqToSet(call.chain) \subseteq SeqToSet(PoolOf(prog))

\* an audio call that drew the longest chain it can, three kernels
C4_Witness == Called("audio") /\ call.k = 3 /\ Len(call.chain) = 3

(***************************************************************************)
(* Claims about NoiseInjection (SpecNoise).                                *)
(***************************************************************************)
Clip255(v) == IF v < 0 THEN 0 ELSE IF v > 255 THEN 255 ELSE v

\* add_noise can turn the one pixel of call.in into pixel t
CanYield(t) == ENABLED (NoiseCall /\ call'.ret.px[1] = t)

OnePixelRGB == pc = "call" /\ call.in.mode = "RGB" /\ Len(call.in.px) = 1

\* C5 as stated: each of R, G and B gets its own draw in -20..20, so for a
\* pixel (r,g,b) every (clamp(r+n1), clamp(g+n2), clamp(b+n3)) is an output.
C5_IndependentChannels ==
    OnePixelRGB =>
        \A n1 \in -20..20 : \A n2 \in -20..20 : \A n3 \in -20..20 :
            CanYield(<<Clip255(call.in.px[1][1] + n1),
                       Clip255(call.in.px[1][2] + n2),
                       Clip255(call.in.px[1][3] + n3)>>)

\* the RGB value of pixel p of an image before the kernel ran
AsRGB(image, p) ==
    IF image.mode = "RGB" THEN image.px[p]
    ELSE <<image.px[p][1], image.px[p][1], image.px[p][1]>>

\* C5, amended: every pixel gets ONE integer draw n in -20..20, added to each
\* of its R, G and B channels and clamped to [0,255]: the outputs of a pixel
\* (r,g,b) are exactly the triples (clamp(r+n), clamp(g+n), clamp(b+n)).
C5_OneDrawPerPixel ==
    /\ OnePixelRGB =>
          \A n \in -20..20 :
              CanYield(<<Clip255(call.in.px[1][1] + n),
                         Clip255(call.in.px[1][2] + n),
                         Clip255(call.in.px[1][3] + n)>>)
    /\ Called("noise") =>
          /\ call.ret.mode = "RGB" /\ Len(call.ret.px) = Len(call.in.px)
          /\ \A p \in 1..Len(call.ret.px) : \E n \in -20..20 :
                call.ret.px[p] = <<Clip255(AsRGB(call.in, p)[1] + n),
                                   Clip255(AsRGB(call.in, p)[2] + n),
                                   Clip255(AsRGB(call.in, p)[3] + n)>>

\* the pixel (10,128,250) after the draw -20: the red channel clamped at 0, the
\* other two moved by the same -20
C5_Witness ==
    /\ Called("noise") /\ Len(call.in.px) = 1
    /\ call.in.px[1] = <<10, 128, 250>>
    /\ call.ret.px[1] = <<0, 108, 230>>

(***************************************************************************)
(* Claims about the batch drivers and the command line (Spec).             *)
(***************************************************************************)
ListingSet == SeqToSet(listing)

\* an extension of the recognized set of the program, in any letter case
InRecognizedSet(ext) ==
    IF prog = "image"
    THEN ext \in {".jpg", ".jpeg", ".png", ".bmp", ".JPG", ".JPEG", ".PNG", ".BMP"}
    ELSE ext \in {".mp3", ".wav", ".flac", ".ogg", ".MP3", ".WAV", ".FLAC", ".OGG"}

Unrecognized == {e \in ListingSet : ~InRecognizedSet(e.ext)}
Recognized == {e \in ListingSet : InRecognizedSet(e.ext)}

Printed(ev, base) == \E line \in stdout : line.ev = ev /\ line.file = base
Faulted(base, ats) == \E ft \in faults : ft.file = base /\ ft.at \in ats
OutputsOf(base) == {o \in outputs : o.base = base}
Reported(ev, n) == Event(ev, "", n) \in stdout

\* C6: in both drivers the buffer loaded from a source file is never modified
\* by an augment call: for every copy the buffer handed to augment has the
\* contents of the buffer as loaded, whatever kernels ran for earlier copies.
C6_LoadedBufferIntact ==
    pc = "copies" =>
        /\ cur.img = cur.f.data
        /\ cur.i > 0 => handed = cur.f.data

\* the image driver after its second augment call on an RGB file
C6_Witness ==
    /\ prog = "image" /\ pc = "copies" /\ cur.i = 2
    /\ cur.f.data.mode = "RGB"
    /\ handed = cur.f.data

\* C7 as stated: in both drivers every file whose extension is not in the
\* recognized set is skipped, adds 1 to the skipped count of the summary and
\* produces no output file.
C7_UnrecognizedCounted ==
    pc = "done" =>
        /\ Reported("summary_skipped", skipped)
        /\ skipped = Cardinality(Unrecognized)
                       + Cardinality({e \in Recognized : Printed("error_processing", e.base)})
        /\ \A e \in Unrecognized : OutputsOf(e.base) = {} /\ e.base \notin reads

\* C7, amended: a file whose extension is not in the recognized set produces no
\* output file in either driver; the image driver counts it as skipped, the
\* audio driver filters it out before its loop and counts it neither as
\* skipped nor as processed.
C7_UnrecognizedPerDriver ==
    pc = "done" =>
        /\ Reported("summary_skipped", skipped)
        /\ skipped = (IF prog = "image" THEN Cardinality(Unrecognized) ELSE 0)
                       + Cardinality({e \in Recognized : Printed("error_processing", e.base)})
        /\ processed = Cardinality({e \in Recognized : Printed("processed", e.base)})
        /\ \A e \in Unrecognized :
              /\ OutputsOf(e.base) = {} /\ e.base \notin reads
              /\ ~Printed("processed", e.base) /\ ~Printed("error_processing", e.base)
              /\ Printed("skipping", e.base) <=> prog = "image"

\* an audio run over a folder with notes.txt and a good file: nothing skipped
C7_Witness ==
    /\ prog = "audio" /\ pc = "done"
    /\ Unrecognized # {} /\ skipped = 0 /\ processed = 1

\* the count argument spells a positive integer
PositiveInteger(s) ==
    LET t == SelectSeq(s, LAMBDA c : c # " ")
        d == IF t # <<>> /\ t[1] = "+" THEN Tail(t) ELSE t
    IN  /\ d # <<>>
        /\ \A i \in 1..Len(d) : d[i] \in {"0", "1", "2", "3", "4", "5", "6", "7", "8", "9"}
        /\ \E i \in 1..Len(d) : d[i] # "0"

BadInvocation ==
    Len(argv) = 4 /\ (~PositiveInteger(argv[4]) \/ argv[2] = "missing")

\* C8: when the count is not a positive integer or the input folder does not
\* exist, the process exits with status 1 before any work: the output folder
\* is never created, no input file is read and no output file written.
C8_BadArgsExitFirst ==
    BadInvocation =>
        /\ pc \in {"start", "exit"}
        /\ pc = "start" => (ENABLED Reject) /\ ~(ENABLED EnterMain)
        /\ pc = "exit" => exitStatus = 1
        /\ ~outDirCreated /\ outputs = {} /\ reads = {}

\* a run with the count "0" and an existing input folder, after its exit
C8_Witness ==
    /\ pc = "exit" /\ exitStatus = 1
    /\ Len(argv) = 4 /\ argv[4] = <<"0">> /\ argv[2] = "in"
    /\ ~outDirExists /\ ~outDirCreated

\* the run is over, or it can take a step
NeverStuck ==
    /\ (pc = "start") => ENABLED (Reject \/ EnterMain)
    /\ (pc = "loop" /\ queue # <<>>) => ENABLED (SkipUnsupported \/ OpenImage \/ LoadAudio)
    /\ (pc = "loop" /\ queue = <<>>) => ENABLED (SummaryImage \/ SummaryAudio)
    /\ (pc = "copies" /\ cur.i < Count) => ENABLED (MakeImageCopy \/ MakeAudioCopy)
    /\ (pc = "copies" /\ cur.i >= Count) => ENABLED (FinishImage \/ FinishAudio)
    /\ pc \in {"start", "loop", "copies", "done", "exit"}

AnyFault == {"load", "save_original", "save_copy"}

\* C9 as stated: a failure while processing a recognized file (on load, on
\* augmenting, on saving any copy) is caught, the file is counted as skipped
\* and not as processed, and every later file is still processed.
C9_FailureMeansSkipped ==
    /\ NeverStuck
    /\ pc = "done" =>
          /\ \A e \in Recognized :
                /\ Faulted(e.base, AnyFault) =>
                      Printed("error_processing", e.base) /\ ~Printed("processed", e.base)
                /\ ~Faulted(e.base, AnyFault) => Printed("processed", e.base)
          /\ processed = Cardinality({e \in Recognized : ~Faulted(e.base, AnyFault)})

\* the failures that make the driver give a file up
FileFaults == IF prog = "image" THEN AnyFault ELSE {"load", "save_original"}

\* C9, amended: a failure while processing a recognized file is caught and the
\* run goes on to every later file and to the summary.  In the image driver,
\* and in the audio driver when the failure is on load or on saving the
\* unmodified copy, the file is counted as skipped and not as processed.  A
\* failure on saving an augmented copy in the audio driver is caught for that
\* copy alone: the remaining copies are still made and the file is counted as
\* processed, not as skipped.
C9_FailureContained ==
    /\ NeverStuck
    /\ pc = "done" =>
          /\ \A e \in Recognized :
                /\ Faulted(e.base, FileFaults) =>
                      Printed("error_processing", e.base) /\ ~Printed("processed", e.base)
                /\ ~Faulted(e.base, FileFaults) =>
                      Printed("processed", e.base) /\ ~Printed("error_processing", e.base)
                /\ \A ft \in faults :
                      (prog = "audio" /\ ft.file = e.base /\ ft.at = "save_copy") =>
                          /\ Event("error_creating", e.base, ft.n) \in stdout
                          /\ Printed("processed", e.base)
          /\ processed = Cardinality({e \in Recognized : ~Faulted(e.base, FileFaults)})
          /\ skipped = (IF prog = "image" THEN Cardinality(Unrecognized) ELSE 0)
                         + Cardinality({e \in Recognized : Faulted(e.base, FileFaults)})
          /\ Reported("summary_processed", processed)
          /\ Reported("summary_skipped", skipped)

\* an audio run of two files: saving a copy of the first failed, both files
\* are counted as processed
C9_Witness ==
    /\ prog = "audio" /\ pc = "done" /\ Len(listing) = 2
    /\ Faulted(listing[1].base, {"save_copy"})
    /\ processed = 2 /\ skipped = 0

\* C10: every audio file counted as processed has produced its unmodified copy
\* and exactly count augmented copies, so the total of augmentations reported
\* (processed x count) is the number of augmented files written.
C10_TotalMatchesWritten ==
    (prog = "audio" /\ pc = "done") =>
        /\ \A e \in Recognized :
              Printed("processed", e.base) =>
                  /\ OutName(e.base, "original", 0, Lower(e.ext)) \in outputs
                  /\ \A i \in 1..Count : OutName(e.base, "aug", i, Lower(e.ext)) \in outputs
        /\ Reported("total", Cardinality({o \in outputs : o.kind = "aug"}))

====
